---- MODULE Spec2Model ----
(***************************************************************************)
(* Model of the Microqubic MRCL700 controller                             *)
(* (src/Python/syndesi_drivers/microscopes/microqubic_mrcl700.py):         *)
(* the background read thread that classifies incoming lines, the         *)
(* position/speed caches, the update events, the unmatched-message queue, *)
(* the actuator and illumination facades and Controller.move_absolute.    *)
(*                                                                         *)
(* A text line is a sequence of one-character strings.  Numbers read from *)
(* the device are kept in thousandths (12.500 is 12500).                  *)
(***************************************************************************)
EXTENDS Integers, Sequences, FiniteSets, TLC

\* ------------------------------------------------------------------ bounds
\* Lines the device sends in one behaviour.
MaxLines == 3
\* Foreground calls issued in one behaviour.
MaxCalls == 1

\* ------------------------------------------------------- character classes
Digit == {"0", "1", "2", "3", "4", "5", "6", "7", "8", "9"}

Upper == {"A", "B", "C", "D", "E", "F", "G", "H", "I", "J", "K", "L", "M",
          "N", "O", "P", "Q", "R", "S", "T", "U", "V", "W", "X", "Y", "Z"}

Lower == {"a", "b", "c", "d", "e", "f", "g", "h", "i", "j", "k", "l", "m",
          "n", "o", "p", "q", "r", "s", "t", "u", "v", "w", "x", "y", "z"}

\* \w
WordCh == Digit \cup Upper \cup Lower \cup {"_"}
\* [0-9A-Za-z]
AlnumCh == Digit \cup Upper \cup Lower
\* [0-9\-.]
SignedDotCh == Digit \cup {"-", "."}
\* [0-9\-]
SignedCh == Digit \cup {"-"}
\* [0-9.]
DotCh == Digit \cup {"."}

\* ------------------------------------------------------------ regex pieces
\* The character at index i is in class cls (one regex atom).
HasCh(s, i, cls) == i >= 1 /\ i <= Len(s) /\ s[i] \in cls

\* cls+ from index i, greedy: the index after the longest run, or i when the
\* run is empty.  Every use below is followed by a character outside cls, so
\* the greedy run is the only one that can match.
RECURSIVE Span(_, _, _)
Span(s, i, cls) == IF HasCh(s, i, cls) THEN Span(s, i + 1, cls) ELSE i

\* The regex anchor $ (no MULTILINE): the end of the string, or just before
\* a newline that ends it.
AtEnd(s, i) == i = Len(s) + 1 \/ (i = Len(s) /\ s[i] = "\n")

Sub(s, i, j) == IF j <= i THEN << >> ELSE SubSeq(s, i, j - 1)

\* ---------------------------------------------------------------- numbers
DigitVal(c) ==
    CASE c = "0" -> 0 [] c = "1" -> 1 [] c = "2" -> 2 [] c = "3" -> 3
      [] c = "4" -> 4 [] c = "5" -> 5 [] c = "6" -> 6 [] c = "7" -> 7
      [] c = "8" -> 8 [] c = "9" -> 9

RECURSIVE DigitsVal(_)
DigitsVal(s) ==
    IF s = << >> THEN 0
    ELSE 10 * DigitsVal(SubSeq(s, 1, Len(s) - 1)) + DigitVal(s[Len(s)])

AllIn(s, cls) == \A i \in 1..Len(s) : s[i] \in cls

\* The fraction digits f as thousandths (the samples carry at most three).
FracMilli(f) ==
    CASE Len(f) = 0 -> 0
      [] Len(f) = 1 -> 100 * DigitsVal(f)
      [] Len(f) = 2 -> 10 * DigitsVal(f)
      [] OTHER -> DigitsVal(SubSeq(f, 1, 3))

\* float(tok) accepts an optional minus, digits with at most one point and
\* at least one digit; anything else is a ValueError.
FloatOk(tok) ==
    LET body == IF tok # << >> /\ tok[1] = "-" THEN Tail(tok) ELSE tok
        ip   == Span(body, 1, Digit)
        rest == Sub(body, ip, Len(body) + 1)
        frac == IF rest # << >> /\ rest[1] = "." THEN Tail(rest) ELSE << >>
    IN /\ body # << >>
       /\ (rest = << >> \/ rest[1] = ".")
       /\ AllIn(frac, Digit)
       /\ (ip > 1 \/ frac # << >>)

\* float(tok) in thousandths, for a tok that FloatOk accepts.
FloatVal(tok) ==
    LET neg  == tok[1] = "-"
        body == IF neg THEN Tail(tok) ELSE tok
        ip   == Span(body, 1, Digit)
        frac == IF ip <= Len(body) THEN Sub(body, ip + 1, Len(body) + 1) ELSE << >>
        mag  == 1000 * DigitsVal(Sub(body, 1, ip)) + FracMilli(frac)
    IN IF neg THEN 0 - mag ELSE mag

\* int(tok) accepts an optional minus and then digits only.
IntOk(tok) ==
    LET body == IF tok # << >> /\ tok[1] = "-" THEN Tail(tok) ELSE tok
    IN body # << >> /\ AllIn(body, Digit)


\* ------------------------------------------------------------ sample lines
\* X:ID1,12.500,340,1: a well-formed status line for axis X
LStatusX ==
    <<"X", ":", "I", "D", "1", ",", "1", "2", ".", "5", "0", "0", ",", "3", "4", "0", ",", "1">>

\* A:I1,-5.000,-12,0: a well-formed status line for axis A, negative fields
LStatusA ==
    <<"A", ":", "I", "1", ",", "-", "5", ".", "0", "0", "0", ",", "-", "1", "2", ",", "0">>

\* $X1,45.0: a speed line for axis X
LSpeedX ==
    <<"$", "X", "1", ",", "4", "5", ".", "0">>

\* garbage line: a line of neither grammar
LGarbage ==
    <<"g", "a", "r", "b", "a", "g", "e", " ", "l", "i", "n", "e">>

\* $A6: the device's echo of the status query for A
LEchoA ==
    <<"$", "A", "6">>

\* A:I1,12.500: the short status reply to a Rotary status query for A
LReplyA ==
    <<"A", ":", "I", "1", ",", "1", "2", ".", "5", "0", "0">>

\* X:ID1,1.2.3,340,1: a status-shaped line whose position is no number
LBadNum ==
    <<"X", ":", "I", "D", "1", ",", "1", ".", "2", ".", "3", ",", "3", "4", "0", ",", "1">>

\* Q:ID1,1.000,2,1: a status-shaped line for a letter that is no actuator
LUnknown ==
    <<"Q", ":", "I", "D", "1", ",", "1", ".", "0", "0", "0", ",", "2", ",", "1">>

\* B:I1,20.000: the short status reply to a Rotary status query for B
LReplyB ==
    <<"B", ":", "I", "1", ",", "2", "0", ".", "0", "0", "0">>

\* What the device sends in the dispatch-loop specification.
Lines == {LStatusX, LStatusA, LSpeedX, LGarbage, LEchoA, LReplyA, LBadNum, LUnknown}

\* What the device sends while status and query calls run.
FgLines == {LEchoA, LReplyA, LReplyB, LStatusX, LGarbage}

\* What the device sends while move_absolute runs.
MoveLines == {LEchoA, LReplyA, LReplyB}

\* Every line the device sends in some specification.
SampleLines == Lines \cup FgLines \cup MoveLines

\* ------------------------------------------------------------- controller
\* MicroqubicMrcl700.ACTUATORS: the keys of the caches and the event tables.
ACTUATORS == {<<"A">>, <<"B">>, <<"C">>, <<"R">>, <<"X">>, <<"Y">>, <<"Z">>}

\* A dict with d[k] = v stored.
Put(d, k, v) == [x \in DOMAIN d \cup {k} |-> IF x = k THEN v ELSE d[x]]

\* A line of the transport with its arrival number.
Entry(l, n) == [line |-> l, id |-> n]

\* -------------------------------------------------------------- classifier
\* re.match(STATUS_PATTERN, s) with
\* STATUS_PATTERN = '(\w+):([0-9A-Za-z]+),([0-9\-.]+),([0-9\-]+),([01])'.
StatusMatch(s) ==
    LET e1 == Span(s, 1, WordCh)
        e2 == Span(s, e1 + 1, AlnumCh)
        e3 == Span(s, e2 + 1, SignedDotCh)
        e4 == Span(s, e3 + 1, SignedCh)
        ok == /\ e1 > 1 /\ HasCh(s, e1, {":"})
              /\ e2 > e1 + 1 /\ HasCh(s, e2, {","})
              /\ e3 > e2 + 1 /\ HasCh(s, e3, {","})
              /\ e4 > e3 + 1 /\ HasCh(s, e4, {","})
              /\ HasCh(s, e4 + 1, {"0", "1"})
    IN IF ok
       THEN [ok |-> TRUE, g1 |-> Sub(s, 1, e1), g2 |-> Sub(s, e1 + 1, e2),
             g3 |-> Sub(s, e2 + 1, e3), g4 |-> Sub(s, e3 + 1, e4),
             g5 |-> Sub(s, e4 + 1, e4 + 2)]
       ELSE [ok |-> FALSE, g1 |-> << >>, g2 |-> << >>, g3 |-> << >>,
             g4 |-> << >>, g5 |-> << >>]

\* re.match(SPEED_PATTERN, s) with SPEED_PATTERN = '$(\w)1,([0-9.]+)': the
\* pattern opens with the anchor $, not with a literal dollar sign.
SpeedMatch(s) ==
    LET e2 == Span(s, 4, DotCh)
        ok == /\ AtEnd(s, 1)
              /\ HasCh(s, 1, WordCh)
              /\ HasCh(s, 2, {"1"})
              /\ HasCh(s, 3, {","})
              /\ e2 > 4
    IN IF ok
       THEN [ok |-> TRUE, g1 |-> Sub(s, 1, 2), g2 |-> Sub(s, 4, e2)]
       ELSE [ok |-> FALSE, g1 |-> << >>, g2 |-> << >>]

\* What parse_and_set returns or raises, and the caches it leaves.
Parsed(r, pos, spd, l, st) ==
    [raised |-> r, positions |-> pos, speeds |-> spd, letter |-> l, is_status |-> st]

\* What parse_and_set converts out of line d before it assigns anything:
\* the branch it takes, the letter and the number; float(group 3),
\* int(group 4) and int(group 5) of a status line, or float(group 2) of a
\* speed line, raise ValueError on a field that is no number.
Conversion(d) ==
    LET st == StatusMatch(d)
        sp == SpeedMatch(d)
    IN IF st.ok
       THEN IF ~FloatOk(st.g3) \/ ~IntOk(st.g4)
            THEN [branch |-> "raise", letter |-> << >>, value |-> 0]
            ELSE [branch |-> "status", letter |-> st.g1, value |-> FloatVal(st.g3)]
       ELSE IF sp.ok
       THEN IF ~FloatOk(sp.g2)
            THEN [branch |-> "raise", letter |-> << >>, value |-> 0]
            ELSE [branch |-> "speed", letter |-> sp.g1, value |-> FloatVal(sp.g2)]
       ELSE [branch |-> "none", letter |-> << >>, value |-> 0]

\* Conversion of every line the device sends, computed once.
Conversions == [d \in SampleLines |-> Conversion(d)]

\* A cache that is one shared cell: the assignment lands on every entry.
StorePositionEverywhere(pos, k, v) == [x \in DOMAIN pos \cup {k} |-> v]

\* positions[letter] = position
StorePosition(pos, k, v) == Put(pos, k, v)

\* speeds[letter] = speed
StoreSpeed(spd, k, v) == Put(spd, k, v)

\* parse_and_set(positions, speeds, data): the status pattern first, then
\* the speed pattern, then ('', None).
ParseAndSet(pos, spd, d) ==
    LET c == Conversions[d]
    IN CASE c.branch = "raise" -> Parsed("ValueError", pos, spd, << >>, "None")
         [] c.branch = "status" ->
              Parsed("", StorePosition(pos, c.letter, c.value), spd, c.letter, "True")
         [] c.branch = "speed" ->
              Parsed("", pos, StoreSpeed(spd, c.letter, c.value), c.letter, "False")
         [] OTHER -> Parsed("", pos, spd, << >>, "None")

\* The two tables taken for each other.
UpdateKeySwapped(st) == IF st = "True" THEN "speeds" ELSE "positions"

\* The table read_thread indexes: 'positions' if is_status else 'speeds'.
UpdateKey(st) == IF st = "True" THEN "positions" ELSE "speeds"

\* ------------------------------------------------------------------- state
VARIABLES
    stop,            \* self._stop[0]
    tpc,             \* where read_thread is: check, read, parse, route, stopped,
                     \* crashed (ended by a parse error), failed (ended by a read error)
    data,            \* the line read_thread holds
    parsed,          \* what parse_and_set returned for it
    positions,       \* self._positions
    speeds,          \* self._speeds
    updates,         \* self._updates, TRUE for a set event
    messages_queue,  \* self._messages_queue
    wire,            \* lines the device sent that no read has taken yet
    nsent,           \* lines the device has sent
    handled,         \* history: the entries read_thread has dealt with, in order
    dpc,             \* where __del__ is: live, joining, closing, closed
    closed,          \* the adapter is closed
    flagged,         \* history: the lines taken off the transport and the lines
                     \* handled at the moment stop_thread set the flag
    timedout,        \* history: the last read of read_thread ended by a timeout
    call,            \* each foreground caller's call: position, arguments, locals, outcome
    written,         \* history: the commands written to the transport, in order
    ncalls,          \* foreground calls started
    fgread           \* history: the entries a foreground call read from the transport

loopvars == <<stop, tpc, data, parsed, positions, speeds, updates,
              messages_queue, wire, nsent, handled, dpc, closed, flagged,
              timedout>>

\* The foreground callers.
Callers == {1, 2}

fgvars == <<call, written, ncalls, fgread>>

NoData == Entry(<< >>, 0)
NoParse == Parsed("", << >>, << >>, << >>, "None")

\* The state __init__ leaves: empty positions, speeds 0 for every actuator,
\* every event clear, an empty queue, the thread started.
InitLoop ==
    /\ stop = FALSE
    /\ tpc = "check"
    /\ data = NoData
    /\ parsed = NoParse
    /\ positions = << >>
    /\ speeds = [k \in ACTUATORS |-> 0]
    /\ updates = [c \in {"positions", "speeds"} |-> [k \in ACTUATORS |-> FALSE]]
    /\ messages_queue = << >>
    /\ wire = << >>
    /\ nsent = 0
    /\ handled = << >>
    /\ dpc = "live"
    /\ closed = FALSE
    /\ flagged = [taken |-> 0, handled |-> 0]
    /\ timedout = FALSE

\* --------------------------------------------------------------- the device
\* The device emits a line at a time of its own choosing.
DeviceSend(l, max) ==
    /\ nsent < max
    /\ ~closed
    /\ wire' = Append(wire, Entry(l, nsent + 1))
    /\ nsent' = nsent + 1
    /\ UNCHANGED fgvars
    /\ UNCHANGED <<stop, flagged, timedout, tpc, data, parsed, positions, speeds, updates,
                   messages_queue, handled, dpc, closed>>

\* ------------------------------------------------------------- read_thread
\* A loop condition that never looks at the flag.
LoopCheckIgnoresFlag ==
    /\ tpc = "check"
    /\ tpc' = "read"
    /\ UNCHANGED fgvars
    /\ UNCHANGED <<stop, flagged, timedout, data, parsed, positions, speeds, updates,
                   messages_queue, wire, nsent, handled, dpc, closed>>

\* while not stop[0]
LoopCheck ==
    /\ tpc = "check"
    /\ tpc' = IF stop THEN "stopped" ELSE "read"
    /\ UNCHANGED fgvars
    /\ UNCHANGED <<stop, flagged, timedout, data, parsed, positions, speeds, updates,
                   messages_queue, wire, nsent, handled, dpc, closed>>

\* prot.read(...) returns the next line
LoopRead ==
    /\ tpc = "read"
    /\ wire # << >>
    /\ data' = Head(wire)
    /\ wire' = Tail(wire)
    /\ tpc' = "parse"
    /\ timedout' = FALSE
    /\ UNCHANGED fgvars
    /\ UNCHANGED <<stop, flagged, parsed, positions, speeds, updates, messages_queue,
                   nsent, handled, dpc, closed>>

\* A timeout taken for the end of the stream: the loop is left.
LoopTimeoutEndsLoop ==
    /\ tpc = "read"
    /\ wire = << >>
    /\ tpc' = "stopped"
    /\ timedout' = TRUE
    /\ UNCHANGED fgvars
    /\ UNCHANGED <<stop, flagged, data, parsed, positions, speeds, updates,
                   messages_queue, wire, nsent, handled, dpc, closed>>

\* prot.read(...) raises TimeoutException: pass
LoopTimeout ==
    /\ tpc = "read"
    /\ wire = << >>
    /\ tpc' = "check"
    /\ timedout' = TRUE
    /\ UNCHANGED fgvars
    /\ UNCHANGED <<stop, flagged, data, parsed, positions, speeds, updates,
                   messages_queue, wire, nsent, handled, dpc, closed>>

\* prot.read(...) raises an exception that is no TimeoutException (the
\* adapter lost its connection): no except clause matches, the exception
\* leaves read_thread and the thread ends.  Nothing is stored and no event
\* is set on the way out.
LoopReadError ==
    /\ tpc = "read"
    /\ tpc' = "failed"
    /\ UNCHANGED fgvars
    /\ UNCHANGED <<stop, flagged, timedout, data, parsed, positions, speeds, updates,
                   messages_queue, wire, nsent, handled, dpc, closed>>

\* letter, is_status = parse_and_set(positions, speeds, data); an exception
\* raised in it is caught nowhere and ends the thread.
LoopParse ==
    /\ tpc = "parse"
    /\ LET r == ParseAndSet(positions, speeds, data.line)
       IN /\ parsed' = r
          /\ positions' = r.positions
          /\ speeds' = r.speeds
          /\ tpc' = IF r.raised = "" THEN "route" ELSE "crashed"
          /\ handled' = IF r.raised = "" THEN handled ELSE Append(handled, data)
    /\ UNCHANGED fgvars
    /\ UNCHANGED <<stop, flagged, timedout, data, updates, messages_queue, wire, nsent, dpc, closed>>

\* One event set for every axis of the table.
SetEventAll(u, key, letter) == [u EXCEPT ![key] = [k \in DOMAIN u[key] |-> TRUE]]

\* updates[key][letter].set()
SetEvent(u, key, letter) == [u EXCEPT ![key][letter] = TRUE]

\* A loop that goes from one line straight to the next read, and looks at
\* the flag only after a timeout.
LoopRouteSkipsCheck ==
    /\ tpc = "route"
    /\ IF parsed.letter # << >>
       THEN IF parsed.letter \in ACTUATORS
            THEN /\ updates' = SetEvent(updates, UpdateKey(parsed.is_status),
                                         parsed.letter)
                 /\ tpc' = "read"
                 /\ UNCHANGED messages_queue
            ELSE /\ tpc' = "crashed"
                 /\ UNCHANGED <<updates, messages_queue>>
       ELSE /\ messages_queue' = Append(messages_queue, data)
            /\ tpc' = "read"
            /\ UNCHANGED updates
    /\ handled' = Append(handled, data)
    /\ UNCHANGED fgvars
    /\ UNCHANGED <<stop, flagged, timedout, data, parsed, positions, speeds, wire, nsent, dpc, closed>>

\* if letter: updates[...][letter].set()  else: messages_queue.put(data);
\* a letter that is no key of the table raises KeyError and ends the thread.
LoopRoute ==
    /\ tpc = "route"
    /\ IF parsed.letter # << >>
       THEN IF parsed.letter \in ACTUATORS
            THEN /\ updates' = SetEvent(updates, UpdateKey(parsed.is_status),
                                         parsed.letter)
                 /\ tpc' = "check"
                 /\ UNCHANGED messages_queue
            ELSE /\ tpc' = "crashed"
                 /\ UNCHANGED <<updates, messages_queue>>
       ELSE /\ messages_queue' = Append(messages_queue, data)
            /\ tpc' = "check"
            /\ UNCHANGED updates
    /\ handled' = Append(handled, data)
    /\ UNCHANGED fgvars
    /\ UNCHANGED <<stop, flagged, timedout, data, parsed, positions, speeds, wire, nsent, dpc, closed>>

\* ----------------------------------------------------------------- teardown
ThreadAlive == tpc \notin {"stopped", "crashed", "failed"}

\* __del__ calls stop_thread: if the thread is alive, set the flag and join.
\* The object is collected only when no call on it is in progress.
Del ==
    /\ dpc = "live"
    /\ \A c \in Callers : call[c].pc = "idle"
    /\ IF ThreadAlive
       THEN /\ stop' = TRUE
            /\ flagged' = [taken |-> nsent - Len(wire), handled |-> Len(handled)]
            /\ dpc' = "joining"
       ELSE /\ UNCHANGED <<stop, flagged>>
            /\ dpc' = "closing"
    /\ UNCHANGED fgvars
    /\ UNCHANGED <<timedout, tpc, data, parsed, positions, speeds, updates,
                   messages_queue, wire, nsent, handled, closed>>

\* A join that does not wait for the thread.
JoinReturnsAtOnce ==
    /\ dpc = "joining"
    /\ dpc' = "closing"
    /\ UNCHANGED fgvars
    /\ UNCHANGED <<stop, flagged, timedout, tpc, data, parsed, positions, speeds, updates,
                   messages_queue, wire, nsent, handled, closed>>

\* self._read_thread.join() returns once the thread has ended.
Join ==
    /\ dpc = "joining"
    /\ ~ThreadAlive
    /\ dpc' = "closing"
    /\ UNCHANGED fgvars
    /\ UNCHANGED <<stop, flagged, timedout, tpc, data, parsed, positions, speeds, updates,
                   messages_queue, wire, nsent, handled, closed>>

\* self._prot._adapter.close()
Close ==
    /\ dpc = "closing"
    /\ closed' = TRUE
    /\ dpc' = "closed"
    /\ UNCHANGED fgvars
    /\ UNCHANGED <<stop, flagged, timedout, tpc, data, parsed, positions, speeds, updates,
                   messages_queue, wire, nsent, handled>>

\* -------------------------------------------------------------- formatting
DigitCh(n) ==
    CASE n = 0 -> "0" [] n = 1 -> "1" [] n = 2 -> "2" [] n = 3 -> "3"
      [] n = 4 -> "4" [] n = 5 -> "5" [] n = 6 -> "6" [] n = 7 -> "7"
      [] n = 8 -> "8" [] n = 9 -> "9"

\* The decimal digits of a natural number.
RECURSIVE NatStr(_)
NatStr(n) == IF n < 10 THEN <<DigitCh(n)>> ELSE NatStr(n \div 10) \o <<DigitCh(n % 10)>>

Abs(n) == IF n < 0 THEN 0 - n ELSE n

RECURSIVE GCD(_, _)
GCD(a, b) == IF b = 0 THEN a ELSE GCD(b, a % b)

\* The rational n/d (d # 0) in lowest terms with a positive denominator.
Rat(n, d) ==
    LET g == GCD(Abs(n), Abs(d))
    IN IF d < 0 THEN [n |-> (0 - n) \div g, d |-> (0 - d) \div g]
       ELSE [n |-> n \div g, d |-> d \div g]

RatLess(a, b) == a.n * b.d < b.n * a.d

\* f'{x:.0f}' of the rational x: the nearest integer, ties to even, with the
\* sign of x.
FormatF0(x) ==
    LET q == Abs(x.n) \div x.d
        r == Abs(x.n) % x.d
        m == IF 2 * r > x.d \/ (2 * r = x.d /\ q % 2 = 1) THEN q + 1 ELSE q
    IN (IF x.n < 0 THEN <<"-">> ELSE << >>) \o NatStr(m)

\* A position written with one decimal, the others cut off.
FormatF1(m) ==
    (IF m < 0 THEN <<"-">> ELSE << >>) \o NatStr(Abs(m) \div 1000) \o <<".">>
    \o <<DigitCh((Abs(m) % 1000) \div 100)>>

\* f'{x:.3f}' of x given in thousandths.
FormatF3(m) ==
    LET f == Abs(m) % 1000
    IN (IF m < 0 THEN <<"-">> ELSE << >>) \o NatStr(Abs(m) \div 1000) \o <<".">>
       \o <<DigitCh(f \div 100), DigitCh((f \div 10) % 10), DigitCh(f % 10)>>

\* ---------------------------------------------------------------- actuators
\* self.A, self.B, self.R are RotaryActuator; self.C, self.X, self.Y, self.Z
\* are LinearActuator.
Rotary == {<<"A">>, <<"B">>, <<"R">>}
Linear == {<<"C">>, <<"X">>, <<"Y">>, <<"Z">>}

\* actuator._limits, in thousandths.
Limits(k) ==
    CASE k \in Rotary -> [lo |-> 0 - 90000, hi |-> 90000]
      [] k \in {<<"C">>, <<"Z">>} -> [lo |-> 0, hi |-> 120000]
      [] k \in {<<"X">>, <<"Y">>} -> [lo |-> 0, hi |-> 70000]

InLimits(k, pos) == Limits(k).lo <= pos /\ pos <= Limits(k).hi

\* MAX_SPEEDS, unit/s at 100% speed: 180/37, 180/35.5, 120/7.5, 180/1,
\* 70/4.5, 70/4.5, 120/7.5.
MAX_SPEEDS(k) ==
    CASE k = <<"A">> -> Rat(180, 37)
      [] k = <<"B">> -> Rat(360, 71)
      [] k = <<"C">> -> Rat(16, 1)
      [] k = <<"R">> -> Rat(180, 1)
      [] k = <<"X">> -> Rat(140, 9)
      [] k = <<"Y">> -> Rat(140, 9)
      [] k = <<"Z">> -> Rat(16, 1)

\* f'${letter}6'
StatusQuery(k) == <<"$">> \o k \o <<"6">>

\* f'${letter}3,{speed:.0f},{position:.3f}'
MoveAbsoluteCmd(k, speed, pos) ==
    <<"$">> \o k \o <<"3", ",">> \o FormatF0(speed) \o <<",">> \o FormatF3(pos)

\* f'{n:d}'
IntStr(n) == (IF n < 0 THEN <<"-">> ELSE << >>) \o NatStr(Abs(n))

\* stop: f'${letter}0'
StopCmd(k) == <<"$">> \o k \o <<"0">>

\* free_move_at_speed: f'$X1,{speed:.0f}', of LinearActuator and of
\* RotaryActuator alike; the letter X is part of the literal.
FreeMoveCmd(k, speed) == <<"$", "X", "1", ",">> \o FormatF0(Rat(speed, 1))

\* move_relative: f'${letter}2,{speed:.0f},{distance:.3f}'
MoveRelativeCmd(k, speed, dist) ==
    <<"$">> \o k \o <<"2", ",">> \o FormatF0(Rat(speed, 1)) \o <<",">> \o FormatF3(dist)

\* move_relative_steps: f'${letter}4,{speed:.0f},{steps:d}'
MoveRelativeStepsCmd(k, speed, steps) ==
    <<"$">> \o k \o <<"4", ",">> \o FormatF0(Rat(speed, 1)) \o <<",">> \o IntStr(steps)

\* auto_home: f'${letter}5'
AutoHomeCmd(k) == <<"$">> \o k \o <<"5">>

\* A pattern with any word character where the letter should be.
RotaryMatchAnyLetter(k, s) ==
    LET n  == Len(k)
        e1 == Span(s, n + 2, WordCh)
        e2 == Span(s, e1 + 1, DotCh)
        ok == /\ Len(s) >= n /\ AllIn(Sub(s, 1, n + 1), WordCh)
              /\ HasCh(s, n + 1, {":"})
              /\ e1 > n + 2 /\ HasCh(s, e1, {","})
              /\ e2 > e1 + 1
    IN IF ok THEN [ok |-> TRUE, g2 |-> Sub(s, e1 + 1, e2)]
       ELSE [ok |-> FALSE, g2 |-> << >>]

\* re.match(f'{letter}:(\w+),([0-9.]+)', s) of RotaryActuator.status
RotaryMatch(k, s) ==
    LET n  == Len(k)
        e1 == Span(s, n + 2, WordCh)
        e2 == Span(s, e1 + 1, DotCh)
        ok == /\ Len(s) >= n /\ Sub(s, 1, n + 1) = k
              /\ HasCh(s, n + 1, {":"})
              /\ e1 > n + 2 /\ HasCh(s, e1, {","})
              /\ e2 > e1 + 1
    IN IF ok THEN [ok |-> TRUE, g2 |-> Sub(s, e1 + 1, e2)]
       ELSE [ok |-> FALSE, g2 |-> << >>]

\* A pattern that takes the reply of any axis for its own.
RotaryConversionAnyAxis(k, s) ==
    LET m == RotaryMatch(IF s = << >> THEN k ELSE <<s[1]>>, s)
    IN IF ~m.ok \/ ~FloatOk(m.g2) THEN [ok |-> FALSE, value |-> 0]
       ELSE [ok |-> TRUE, value |-> FloatVal(m.g2)]

\* What status() of axis k makes of the line s it popped as data: no match
\* or a field float() rejects is a ValueError, else the angle.
RotaryConversion(k, s) ==
    LET m == RotaryMatch(k, s)
    IN IF ~m.ok \/ ~FloatOk(m.g2) THEN [ok |-> FALSE, value |-> 0]
       ELSE [ok |-> TRUE, value |-> FloatVal(m.g2)]

\* RotaryConversion of every line the device sends, computed once.
RotaryConversions ==
    [k \in Rotary, d \in SampleLines |-> RotaryConversion(k, d)]

\* The clear left out: the queue keeps what it held.
NotCleared(q) == q

\* self._messages_queue.queue.clear()
Cleared(q) == << >>

\* (p - position) / MAX_SPEEDS[k], for p and position in thousandths.
TimeFor(k, pos, cur) == Rat((pos - cur) * MAX_SPEEDS(k).d, MAX_SPEEDS(k).n)

\* max(times.values()) over the request's axes.
RECURSIVE MaxTime(_, _, _)
MaxTime(req, cur, i) ==
    LET t == TimeFor(req[i].k, req[i].p, cur[i])
    IN IF i = Len(req) THEN t
       ELSE LET m == MaxTime(req, cur, i + 1)
            IN IF RatLess(t, m) THEN m ELSE t

\* s * times[k] / longest_time
ScaledSpeed(sp, t, longest) == Rat(sp * t.n * longest.d, t.d * longest.n)

\* ---------------------------------------------------------- foreground calls
IdleCall ==
    [pc |-> "idle", op |-> "", axis |-> << >>, args |-> << >>, req |-> << >>,
     sync |-> FALSE,
     idx |-> 0, cur |-> << >>, stale |-> {}, popped |-> {}, from |-> 0,
     hasret |-> FALSE, ret |-> 0, exc |-> "", no |-> 0]

InitFg ==
    /\ call = [c \in Callers |-> IdleCall]
    /\ written = << >>
    /\ ncalls = 0
    /\ fgread = << >>

Ids(q) == {q[i].id : i \in 1..Len(q)}

\* A command on the transport, with the number of the call that wrote it.
Wrote(r, cmd) == [cmd |-> cmd, no |-> r.no]

\* A fresh call record for the next call.
NewCall == [IdleCall EXCEPT !.no = ncalls + 1]

\* Caller c is between calls, the controller is alive, and fewer than max
\* calls were made.
CanCallUpTo(c, max) == call[c].pc = "idle" /\ ncalls < max /\ dpc = "live"

CanCall(c) == CanCallUpTo(c, MaxCalls)

\* The call returns v / returns None / raises e.
Returned(r, v) == [r EXCEPT !.pc = "idle", !.hasret = TRUE, !.ret = v]
ReturnedNone(r) == [r EXCEPT !.pc = "idle"]
Raised(r, e) == [r EXCEPT !.pc = "idle", !.exc = e]

\* A caller enters RotaryActuator.status (or get_position) of axis k.
CallRotaryStatusUpTo(c, k, max) ==
    /\ CanCallUpTo(c, max)
    /\ call' = [call EXCEPT ![c] = [NewCall EXCEPT !.pc = "st_clear",
                    !.op = "status", !.axis = k, !.stale = Ids(messages_queue)]]
    /\ ncalls' = ncalls + 1
    /\ UNCHANGED <<written, fgread>>
    /\ UNCHANGED loopvars

CallRotaryStatus(c, k) == CallRotaryStatusUpTo(c, k, MaxCalls)

\* with self._messages_queue.mutex: self._messages_queue.queue.clear()
StClear(c) ==
    /\ call[c].pc = "st_clear"
    /\ messages_queue' = Cleared(messages_queue)
    /\ call' = [call EXCEPT ![c].pc = "st_write"]
    /\ UNCHANGED <<written, ncalls, fgread>>
    /\ UNCHANGED <<stop, flagged, timedout, tpc, data, parsed, positions, speeds, updates, wire,
                   nsent, handled, dpc, closed>>

\* self._prot.write(query)
StWrite(c) ==
    /\ call[c].pc = "st_write"
    /\ written' = Append(written, Wrote(call[c], StatusQuery(call[c].axis)))
    /\ call' = [call EXCEPT ![c].pc = "st_resp"]
    /\ UNCHANGED <<ncalls, fgread>>
    /\ UNCHANGED loopvars

\* A get() that leaves the line it returns on the queue.
StGetResponsePeeks(c) ==
    /\ call[c].pc = "st_resp"
    /\ messages_queue # << >>
    /\ call' = [call EXCEPT ![c].pc = "st_data",
                    ![c].popped = @ \cup {Head(messages_queue).id}]
    /\ UNCHANGED <<written, ncalls, fgread>>
    /\ UNCHANGED loopvars

\* response = self._messages_queue.get(): blocks while the queue is empty
StGetResponse(c) ==
    /\ call[c].pc = "st_resp"
    /\ messages_queue # << >>
    /\ messages_queue' = Tail(messages_queue)
    /\ call' = [call EXCEPT ![c].pc = "st_data",
                    ![c].popped = @ \cup {Head(messages_queue).id}]
    /\ UNCHANGED <<written, ncalls, fgread>>
    /\ UNCHANGED <<stop, flagged, timedout, tpc, data, parsed, positions, speeds, updates, wire,
                   nsent, handled, dpc, closed>>

\* What status() does with the data it popped: raise ValueError, or return
\* the angle.
StatusOutcome(r, e) ==
    LET m == RotaryConversions[r.axis, e.line]
        q == [r EXCEPT !.popped = @ \cup {e.id}, !.from = e.id]
    IN IF ~m.ok THEN Raised(q, "ValueError")
       ELSE IF r.op = "status" THEN Returned(q, m.value)
       ELSE \* get_position returned into the comprehension of move_absolute
            [q EXCEPT !.cur = Append(@, m.value),
                      !.idx = IF r.idx = Len(r.req) THEN 1 ELSE @ + 1,
                      !.pc = IF r.idx = Len(r.req) THEN "mv_loop" ELSE "mv_getpos"]

\* data = self._messages_queue.get(), then match, raise or return
StGetData(c) ==
    /\ call[c].pc = "st_data"
    /\ messages_queue # << >>
    /\ messages_queue' = Tail(messages_queue)
    /\ call' = [call EXCEPT ![c] = StatusOutcome(call[c], Head(messages_queue))]
    /\ UNCHANGED <<written, ncalls, fgread>>
    /\ UNCHANGED <<stop, flagged, timedout, tpc, data, parsed, positions, speeds, updates, wire,
                   nsent, handled, dpc, closed>>

\* LinearActuator.status (and get_position): the query is written, then
\* _check_response(query, response) names a variable that was never
\* assigned, which raises NameError.
CallLinearStatus(c, k) ==
    /\ CanCall(c)
    /\ written' = Append(written, Wrote(NewCall, StatusQuery(k)))
    /\ call' = [call EXCEPT ![c] = Raised([NewCall EXCEPT !.op = "status",
                    !.axis = k], "NameError")]
    /\ ncalls' = ncalls + 1
    /\ UNCHANGED fgread
    /\ UNCHANGED loopvars

\* A facade method that is one self._prot.write(cmd): the command is written
\* and the method returns None.
CallCommand(c, k, op, args, cmd) ==
    /\ CanCall(c)
    /\ written' = Append(written, Wrote(NewCall, cmd))
    /\ call' = [call EXCEPT ![c] =
                   ReturnedNone([NewCall EXCEPT !.op = op, !.axis = k,
                                                !.args = args])]
    /\ ncalls' = ncalls + 1
    /\ UNCHANGED fgread
    /\ UNCHANGED loopvars

\* actuator.stop()
CallStop(c, k) == CallCommand(c, k, "stop", << >>, StopCmd(k))

\* actuator.free_move_at_speed(speed)
CallFreeMoveAtSpeed(c, k, speed) ==
    CallCommand(c, k, "free_move_at_speed", <<speed>>, FreeMoveCmd(k, speed))

\* actuator.move_relative(speed, distance)
CallMoveRelative(c, k, speed, dist) ==
    CallCommand(c, k, "move_relative", <<speed, dist>>,
                MoveRelativeCmd(k, speed, dist))

\* actuator.move_absolute(speed, position)
CallActuatorMoveAbsolute(c, k, speed, pos) ==
    CallCommand(c, k, "actuator.move_absolute", <<speed, pos>>,
                MoveAbsoluteCmd(k, Rat(speed, 1), pos))

\* actuator.move_relative_steps(speed, steps)
CallMoveRelativeSteps(c, k, speed, steps) ==
    CallCommand(c, k, "move_relative_steps", <<speed, steps>>,
                MoveRelativeStepsCmd(k, speed, steps))

\* actuator.auto_home(): the command is written; LinearActuator returns,
\* RotaryActuator goes on to _check_response(query, response) with a
\* response that was never assigned, which raises NameError.
CallAutoHome(c, k) ==
    /\ CanCall(c)
    /\ written' = Append(written, Wrote(NewCall, AutoHomeCmd(k)))
    /\ call' = [call EXCEPT ![c] =
                   LET r == [NewCall EXCEPT !.op = "auto_home", !.axis = k]
                   IN IF k \in Rotary THEN Raised(r, "NameError")
                      ELSE ReturnedNone(r)]
    /\ ncalls' = ncalls + 1
    /\ UNCHANGED fgread
    /\ UNCHANGED loopvars

\* RingIllumination.on and MatrixIllumination.on: the commands sent with
\* self._prot.query(query).
RingOn == <<"$", "c", "1">>
MatrixOn == <<"$", "a", "1">>
QueryCmds == {RingOn, MatrixOn}

\* adapter.flushRead(): the unread input is dropped.
Flushed(w) == << >>

\* A caller enters a facade method built on self._prot.query(query); query
\* is flushRead, write, read (protocols.py).  This step is the flushRead.
CallQuery(c, cmd) ==
    /\ CanCall(c)
    /\ wire' = Flushed(wire)
    /\ call' = [call EXCEPT ![c] = [NewCall EXCEPT !.pc = "rq_write",
                    !.op = "query", !.axis = cmd]]
    /\ ncalls' = ncalls + 1
    /\ UNCHANGED <<written, fgread>>
    /\ UNCHANGED <<stop, flagged, timedout, tpc, data, parsed, positions, speeds, updates,
                   messages_queue, nsent, handled, dpc, closed>>

\* query: self.write(data)
RqWrite(c) ==
    /\ call[c].pc = "rq_write"
    /\ written' = Append(written, Wrote(call[c], call[c].axis))
    /\ call' = [call EXCEPT ![c].pc = "rq_read"]
    /\ UNCHANGED <<ncalls, fgread>>
    /\ UNCHANGED loopvars

\* query: return self.read(), a line arrives; _check_response passes
RqRead(c) ==
    /\ call[c].pc = "rq_read"
    /\ wire # << >>
    /\ fgread' = Append(fgread, Head(wire))
    /\ wire' = Tail(wire)
    /\ call' = [call EXCEPT ![c] = ReturnedNone(call[c])]
    /\ UNCHANGED <<written, ncalls>>
    /\ UNCHANGED <<stop, flagged, timedout, tpc, data, parsed, positions, speeds, updates,
                   messages_queue, nsent, handled, dpc, closed>>

\* query: self.read() raises the adapter's timeout
RqTimeout(c) ==
    /\ call[c].pc = "rq_read"
    /\ wire = << >>
    /\ call' = [call EXCEPT ![c] = Raised(call[c], "TimeoutException")]
    /\ UNCHANGED <<written, ncalls, fgread>>
    /\ UNCHANGED loopvars

\* ------------------------------------------------ Controller.move_absolute
\* One entry of the positions dict: 'k' : (p, s).
Target(k, p, s) == [k |-> k, p |-> p, s |-> s]

\* The requests the callers make: the dict in insertion order.
MoveRequests ==
    { <<Target(<<"A">>, 10000, 50)>>,
      <<Target(<<"A">>, 95000, 50)>>,
      <<Target(<<"X">>, 10000, 50)>>,
      <<Target(<<"A">>, 10000, 50), Target(<<"B">>, 95000, 50)>>,
      <<Target(<<"A">>, 10000, 50), Target(<<"B">>, 30000, 80)>>,
      <<Target(<<"X">>, 10000, 50), Target(<<"Y">>, 10000, 50)>>,
      <<Target(<<"A">>, 12600, 10), Target(<<"B">>, 30000, 80)>>,
      <<Target(<<"A">>, 12500, 50)>> }

\* A caller enters move_absolute(positions, sync).
CallMoveAbsolute(c, req, sync) ==
    /\ CanCall(c)
    /\ call' = [call EXCEPT ![c] = [NewCall EXCEPT !.pc = "mv_getpos",
                    !.op = "move_absolute", !.req = req, !.sync = sync,
                    !.idx = 1]]
    /\ ncalls' = ncalls + 1
    /\ UNCHANGED <<written, fgread>>
    /\ UNCHANGED loopvars

\* times = {k : (p - getattr(self, k).get_position()) / ...}: the next
\* get_position() is entered.  A Linear one writes its query and raises
\* NameError, which leaves move_absolute; a Rotary one is status().
MvGetPosition(c) ==
    /\ call[c].pc = "mv_getpos"
    /\ LET k == call[c].req[call[c].idx].k
       IN IF k \in Linear
          THEN /\ written' = Append(written, Wrote(call[c], StatusQuery(k)))
               /\ call' = [call EXCEPT ![c] = Raised(call[c], "NameError")]
          ELSE /\ call' = [call EXCEPT ![c].pc = "st_clear", ![c].axis = k,
                               ![c].stale = Ids(messages_queue),
                               ![c].popped = {}]
               /\ UNCHANGED written
    /\ UNCHANGED <<ncalls, fgread>>
    /\ UNCHANGED loopvars

\* The speed move_absolute hands to the actuator for entry i.
CommandedSpeed(r, i) ==
    IF r.sync
    THEN ScaledSpeed(r.req[i].s, TimeFor(r.req[i].k, r.req[i].p, r.cur[i]),
                     MaxTime(r.req, r.cur, 1))
    ELSE Rat(r.req[i].s, 1)

\* One pass of `for k, (p, s) in positions.items()`: the limits check, then
\* actuator.move_absolute(...), which writes the command.
MvLoop(c) ==
    /\ call[c].pc = "mv_loop"
    /\ LET r == call[c]
           i == r.idx
           t == r.req[i]
           more == [r EXCEPT !.idx = @ + 1]
       IN IF ~InLimits(t.k, t.p)
          THEN /\ call' = [call EXCEPT ![c] = Raised(r, "ValueError")]
               /\ UNCHANGED written
          ELSE IF r.sync /\ MaxTime(r.req, r.cur, 1).n = 0
          THEN /\ call' = [call EXCEPT ![c] = Raised(r, "ZeroDivisionError")]
               /\ UNCHANGED written
          ELSE /\ written' = Append(written,
                    Wrote(r, MoveAbsoluteCmd(t.k, CommandedSpeed(r, i), t.p)))
               /\ call' = [call EXCEPT ![c] =
                              IF i = Len(r.req) THEN ReturnedNone(more) ELSE more]
    /\ UNCHANGED <<ncalls, fgread>>
    /\ UNCHANGED loopvars

\* ----------------------------------------------------------- specifications
vars == <<loopvars, fgvars>>

Init == InitLoop /\ InitFg

Next ==
    \/ \E l \in Lines : DeviceSend(l, MaxLines)
    \/ LoopCheck
    \/ LoopRead
    \/ LoopTimeout
    \/ LoopReadError
    \/ LoopParse
    \/ LoopRoute
    \/ Del
    \/ Join
    \/ Close

Spec == Init /\ [][Next]_vars

\* Lines the device sends in one behaviour with status and query calls.
MaxFgLines == 3

\* One foreground caller: serialized foreground use.
SerialCallers == {1}

\* The steps of RotaryActuator.status, also run by get_position.
StatusSteps(c) ==
    \/ StClear(c)
    \/ StWrite(c)
    \/ StGetResponse(c)
    \/ StGetData(c)

CallerStep(c) ==
    \/ CallRotaryStatus(c, <<"A">>)
    \/ StatusSteps(c)
    \/ CallLinearStatus(c, <<"X">>)
    \/ \E cmd \in QueryCmds : CallQuery(c, cmd)
    \/ RqWrite(c)
    \/ RqRead(c)
    \/ RqTimeout(c)

LoopStep ==
    \/ LoopCheck
    \/ LoopRead
    \/ LoopTimeout
    \/ LoopReadError
    \/ LoopParse
    \/ LoopRoute

NextFg ==
    \/ \E l \in FgLines : DeviceSend(l, MaxFgLines)
    \/ LoopStep
    \/ \E c \in SerialCallers : CallerStep(c)

\* The dispatch loop with one caller of status and query facades.
SpecFg == Init /\ [][NextFg]_vars

\* Lines the device sends in one behaviour with move_absolute calls.
MaxMoveLines == 4

MoveStep(c) ==
    \/ \E req \in MoveRequests, sync \in BOOLEAN : CallMoveAbsolute(c, req, sync)
    \/ MvGetPosition(c)
    \/ StatusSteps(c)
    \/ MvLoop(c)

NextMove ==
    \/ \E l \in MoveLines : DeviceSend(l, MaxMoveLines)
    \/ LoopStep
    \/ \E c \in SerialCallers : MoveStep(c)

\* The dispatch loop with one caller of Controller.move_absolute.
SpecMove == Init /\ [][NextMove]_vars

\* Lines the device sends in one behaviour with actuator facade calls.
MaxActLines == 2

\* What the device sends while actuator facade calls run.
ActLines == {LReplyA}

\* The arguments the callers pass: speeds in percent, distances and
\* positions in thousandths, steps.
ArgSpeeds == {37, 0 - 100}
ArgDistances == {45125, 0 - 5000}
ArgSteps == {0 - 3}

\* A call of one method of the facade of axis k.
ActuatorCall(c, k) ==
    \/ CallStop(c, k)
    \/ \E s \in ArgSpeeds : CallFreeMoveAtSpeed(c, k, s)
    \/ \E s \in ArgSpeeds, d \in ArgDistances : CallMoveRelative(c, k, s, d)
    \/ \E s \in ArgSpeeds, p \in ArgDistances : CallActuatorMoveAbsolute(c, k, s, p)
    \/ \E s \in ArgSpeeds, n \in ArgSteps : CallMoveRelativeSteps(c, k, s, n)
    \/ CallAutoHome(c, k)

ActStep(c) ==
    \/ \E k \in ACTUATORS : ActuatorCall(c, k)
    \/ \E k \in Linear : CallLinearStatus(c, k)
    \/ \E k \in Rotary : CallRotaryStatus(c, k)
    \/ StatusSteps(c)

NextAct ==
    \/ \E l \in ActLines : DeviceSend(l, MaxActLines)
    \/ LoopStep
    \/ \E c \in SerialCallers : ActStep(c)

\* The dispatch loop with one caller of the actuator facades of every axis.
SpecAct == Init /\ [][NextAct]_vars

\* Lines the device sends, and calls made, in one behaviour with two callers.
MaxPairLines == 3
MaxPairCalls == 2

\* What the device sends while two callers run status().
PairLines == {LEchoA, LReplyA, LReplyB}

\* The axis each of the two callers asks the status of.
PairAxis(c) == IF c = 1 THEN <<"A">> ELSE <<"B">>

PairStep(c) ==
    \/ /\ call[c].no = 0
       /\ CallRotaryStatusUpTo(c, PairAxis(c), MaxPairCalls)
    \/ StatusSteps(c)

NextPair ==
    \/ \E l \in PairLines : DeviceSend(l, MaxPairLines)
    \/ LoopStep
    \/ \E c \in Callers : PairStep(c)

\* The dispatch loop with two callers, each running status() of its axis
\* once, with nothing that orders them.
SpecPair == Init /\ [][NextPair]_vars

\* SpecFg with the scheduling of the two threads: the read thread keeps
\* running, and a caller that can take its next step takes it.  The device
\* is under no obligation to send anything.
FairSpecFg ==
    /\ SpecFg
    /\ WF_vars(LoopStep)
    /\ \A c \in SerialCallers :
          WF_vars(StatusSteps(c) \/ RqWrite(c) \/ RqRead(c) \/ RqTimeout(c))

\* Spec with the scheduling of the read thread: it keeps running while it
\* has a step to take, and a read returns a line, times out or fails.
FairSpec == Spec /\ WF_vars(LoopStep)

\* ------------------------------------------------- the documented grammars
\* The first index >= i that holds character c, or Len(s) + 1.
RECURSIVE Find(_, _, _)
Find(s, i, c) == IF i > Len(s) \/ s[i] = c THEN i ELSE Find(s, i + 1, c)

\* The comma-separated fields of a line.
RECURSIVE Fields(_)
Fields(s) ==
    LET i == Find(s, 1, ",")
    IN IF i > Len(s) THEN <<s>>
       ELSE <<Sub(s, 1, i)>> \o Fields(Sub(s, i + 1, Len(s) + 1))

\* <letter>:<token>,<position>,<steps>,<0|1>, whatever the numeric fields hold.
IsStatusShape(s) ==
    LET f == Fields(s)
    IN /\ Len(f) = 4
       /\ Len(f[1]) >= 3 /\ f[1][1] \in Upper \cup Lower /\ f[1][2] = ":"
       /\ AllIn(Tail(Tail(f[1])), AlnumCh)
       /\ f[2] # << >> /\ AllIn(f[2], SignedDotCh)
       /\ f[3] # << >> /\ AllIn(f[3], SignedCh)
       /\ f[4] \in {<<"0">>, <<"1">>}

\* A status line whose numeric fields are numbers.
IsStatusLine(s) ==
    IsStatusShape(s) /\ FloatOk(Fields(s)[2]) /\ IntOk(Fields(s)[3])

\* $<letter>1,<float>
IsSpeedLine(s) ==
    /\ Len(s) >= 5
    /\ s[1] = "$" /\ s[2] \in Upper \cup Lower /\ s[3] = "1" /\ s[4] = ","
    /\ AllIn(Sub(s, 5, Len(s) + 1), DotCh)
    /\ FloatOk(Sub(s, 5, Len(s) + 1))

\* The axis a status line or a speed line names, and the number it carries.
StatusAxis(s) == <<s[1]>>
StatusPosition(s) == FloatVal(Fields(s)[2])
SpeedAxis(s) == <<s[2]>>
SpeedValue(s) == FloatVal(Sub(s, 5, Len(s) + 1))

Unmatched(e) == ~IsStatusShape(e.line) /\ ~IsSpeedLine(e.line)

\* The last entry of h that is a speed line for axis k, or NoData.
RECURSIVE LastSpeedFor(_, _)
LastSpeedFor(h, k) ==
    IF h = << >> THEN NoData
    ELSE IF IsSpeedLine(h[Len(h)].line) /\ SpeedAxis(h[Len(h)].line) = k
         THEN h[Len(h)]
         ELSE LastSpeedFor(SubSeq(h, 1, Len(h) - 1), k)

\* ------------------------------------------------------------------ claims
\* C1: with no foreground consumer, the queue holds exactly the lines read
\* so far that match neither the status grammar nor the speed grammar, each
\* once, unchanged and in arrival order.
C1_QueueHoldsExactlyUnmatched ==
    messages_queue = SelectSeq(handled, Unmatched)

\* One step under C2: a well-formed status line for a known axis is parsed without error
\* into the Position cache of its axis before its event is touched; the
\* routing step then sets the event (axis, position) with the cache already
\* written, and pushes nothing to the queue.
C2_StatusStep ==
    LET l == data.line
        k == StatusAxis(l)
    IN (IsStatusLine(l) /\ k \in ACTUATORS) =>
         /\ (tpc = "parse" /\ tpc' # "parse") =>
               /\ tpc' = "route"
               /\ k \in DOMAIN positions'
               /\ positions'[k] = StatusPosition(l)
               /\ updates' = updates
               /\ messages_queue' = messages_queue
         /\ (tpc = "route" /\ tpc' # "route") =>
               /\ tpc' = "check"
               /\ k \in DOMAIN positions
               /\ positions[k] = StatusPosition(l)
               /\ positions' = positions
               /\ updates'["positions"][k]
               /\ messages_queue' = messages_queue

\* C2, as a property of every step: each step of the dispatch of a
\* well-formed status line for a known axis is as C2_StatusStep says.
C2_StatusLineSetsCacheThenEvent == [][C2_StatusStep]_vars

\* C2 witness: the event (X, position) is set by the line X:ID1,12.500,340,1.
C2_Witness ==
    /\ tpc = "check"
    /\ data.line = LStatusX
    /\ updates["positions"][<<"X">>]
    /\ positions[<<"X">>] = 12500

\* C3: once a speed line for a known axis has been dispatched, the event
\* (axis, speed) is set and the Speed cache of that axis holds the speed of
\* the last such line.
C3_SpeedLineSetsCacheAndEvent ==
    \A k \in ACTUATORS :
        LET e == LastSpeedFor(handled, k)
        IN e # NoData =>
             /\ updates["speeds"][k]
             /\ speeds[k] = SpeedValue(e.line)

\* C4: no line on the queue is a status line or a speed line of a known axis.
C4_QueueHoldsNoClassifiedLine ==
    \A i \in 1..Len(messages_queue) :
        LET l == messages_queue[i].line
        IN /\ ~(IsStatusShape(l) /\ StatusAxis(l) \in ACTUATORS)
           /\ ~(IsSpeedLine(l) /\ SpeedAxis(l) \in ACTUATORS)

\* One step under C5: the dispatch of a status line for axis L leaves the
\* Position cache entry of every other axis, and the whole Speed cache, as
\* they were.
C5_StatusStep ==
    LET l == data.line
        k == StatusAxis(l)
    IN (tpc \in {"parse", "route"} /\ IsStatusShape(l)) =>
         /\ speeds' = speeds
         /\ \A a \in (DOMAIN positions \cup DOMAIN positions') \ {k} :
               /\ a \in DOMAIN positions
               /\ a \in DOMAIN positions'
               /\ positions'[a] = positions[a]

\* C5, as a property of every step: no step of the dispatch of a status line
\* for axis L changes another axis's position or any speed.
C5_StatusLineChangesOnlyItsAxis == [][C5_StatusStep]_vars

\* C5 witness: a status line for A has been dispatched while the cache held a
\* position of X, and X kept it.
C5_Witness ==
    /\ tpc = "check"
    /\ data.line = LStatusA
    /\ <<"X">> \in DOMAIN positions
    /\ positions[<<"X">>] = 12500
    /\ positions[<<"A">>] = 0 - 5000

\* The commands call number n wrote, in order.
WrittenBy(n) == SelectSeq(written, LAMBDA w : w.no = n)

\* A request with a target outside the limits of its axis.
HasOutOfLimits(req) == \E i \in 1..Len(req) : ~InLimits(req[i].k, req[i].p)

\* $<letter>3,... : a move-absolute command.
IsMoveAbsolute(w) == Len(w.cmd) >= 3 /\ w.cmd[1] = "$" /\ w.cmd[3] = "3"

\* C6: when move_absolute has raised for a request with an out-of-limits
\* target, that call has written no command at all to the transport.
C6_OutOfLimitsRaisesBeforeAnyWrite ==
    \A c \in Callers :
        (/\ call[c].op = "move_absolute"
         /\ HasOutOfLimits(call[c].req)
         /\ call[c].pc = "idle"
         /\ call[c].exc # "")
        => WrittenBy(call[c].no) = << >>

\* C7: a move_absolute whose request holds an out-of-limits target never
\* writes a move-absolute command, for any axis of the request.
C7_NoPartialIssuance ==
    \A c \in Callers :
        (call[c].op = "move_absolute" /\ HasOutOfLimits(call[c].req))
        => \A i \in 1..Len(written) :
              written[i].no = call[c].no => ~IsMoveAbsolute(written[i])

\* C8: a line that was on the queue when Rotary status() was entered is off
\* the queue before the query is written, is never popped by that call, and
\* is never the line the returned angle was parsed from.
C8_StaleLineNeverConsumed ==
    \A c \in Callers :
        /\ call[c].stale \cap call[c].popped = {}
        /\ call[c].pc \in {"st_write", "st_resp", "st_data"}
              => call[c].stale \cap Ids(messages_queue) = {}
        /\ call[c].hasret => call[c].from \notin call[c].stale

\* C8 witness: status() returned an angle although a line was waiting on the
\* queue when it was entered.
C8_Witness ==
    /\ call[1].op = "status"
    /\ call[1].hasret
    /\ call[1].ret = 12500
    /\ call[1].stale # {}

\* C9: no foreground call takes a line from the transport.
C9_OnlyLoopReadsTransport == fgread = << >>

\* C10: a call that waits for a reply on the queue ends, by returning or by
\* raising, as long as the dispatch loop is alive to feed the queue.
C10_ReplyWaitTerminates ==
    \A c \in SerialCallers :
        (call[c].pc \in {"st_resp", "st_data"})
            ~> (call[c].pc = "idle" \/ ~ThreadAlive)

\* A line the status pattern matches whose position or step field is no
\* number.
IsMalformedStatus(s) == IsStatusShape(s) /\ ~IsStatusLine(s)

\* C11: once the dispatch loop has dealt with a line that matches the status
\* pattern but carries a numeric field that cannot be converted, the line is
\* dropped: it is not on the queue, no event of the tables is set by it, and
\* the loop is still running, ready for the lines that follow.
C11_MalformedLineIsDiscarded ==
    (/\ handled # << >>
     /\ handled[Len(handled)] = data
     /\ IsMalformedStatus(data.line))
    => /\ tpc \in {"check", "read"}
       /\ data.id \notin Ids(messages_queue)

\* C12: a read failure that ended the dispatch loop does not vanish: a
\* teardown that finds the loop ended by a read failure does not run to its
\* end as the teardown of a healthy controller does (it raises or reports).
C12_ReadFailureIsSurfaced == ~(tpc = "failed" /\ dpc = "closed")

\* One step under C13: with the flag set, the loop condition at the top of
\* the iteration ends the loop instead of starting another read, and an
\* ended loop never runs again.
C13_StopStep ==
    /\ (stop /\ tpc = "check" /\ tpc' # tpc) => tpc' = "stopped"
    /\ (tpc = "stopped") => tpc' = "stopped"

\* C13: once stop_thread has set the flag, the dispatch loop ends (every
\* read returning, timing out or failing in bounded time): the loop sees the
\* flag at the top of its next iteration, starts no iteration after that, and
\* stays stopped.
C13_StopFlagEndsLoop ==
    /\ stop ~> ~ThreadAlive
    /\ [][C13_StopStep]_vars

\* C13 witness: the flag was set while the loop was at work on a line, and
\* the loop has stopped at its next check.
C13_Witness ==
    /\ stop
    /\ tpc = "stopped"
    /\ handled # << >>
    /\ dpc = "joining"

\* The methods of an actuator facade that write a command.
ActuatorOps == {"stop", "free_move_at_speed", "move_relative",
                "actuator.move_absolute", "move_relative_steps", "auto_home",
                "status"}

\* C14: every command a call of an actuator facade wrote starts with `$`
\* followed by the axis letter of that facade.
C14_CommandNamesOwnAxis ==
    \A c \in Callers :
        call[c].op \in ActuatorOps =>
            \A i \in 1..Len(written) :
                written[i].no = call[c].no =>
                    /\ Len(written[i].cmd) >= 2
                    /\ written[i].cmd[1] = "$"
                    /\ <<written[i].cmd[2]>> = call[c].axis

\* The status lines for axis k the dispatch loop has handled so far.
StatusLinesFor(k) ==
    {i \in 1..Len(handled) :
        IsStatusLine(handled[i].line) /\ StatusAxis(handled[i].line) = k}

\* C18: a get_position() of a Linear axis that has ended has returned, and
\* what it returned is the position of a status line the device sent for
\* that axis.
C18_LinearPositionReturned ==
    \A c \in Callers :
        (/\ call[c].op = "status"
         /\ call[c].axis \in Linear
         /\ call[c].pc = "idle")
        => /\ call[c].exc = ""
           /\ call[c].hasret
           /\ \E i \in StatusLinesFor(call[c].axis) :
                 call[c].ret = StatusPosition(handled[i].line)

\* C20: an auto_home() that has ended wrote the one command `$<axis>5`,
\* popped nothing from the queue and raised nothing.
C20_AutoHomeWritesAndReturns ==
    \A c \in Callers :
        (call[c].op = "auto_home" /\ call[c].pc = "idle")
        => /\ WrittenBy(call[c].no) = <<Wrote(call[c], AutoHomeCmd(call[c].axis))>>
           /\ call[c].popped = {}
           /\ call[c].exc = ""

\* $<letter>6 : a status query.
IsStatusQuery(w) == Len(w.cmd) = 3 /\ w.cmd[1] = "$" /\ w.cmd[3] = "6"

\* The commands call number n wrote that are no status query, in order.
MotionBy(n) == SelectSeq(written, LAMBDA w : w.no = n /\ ~IsStatusQuery(w))

\* |target - current| / max_speed[axis]
TravelTime(k, pos, cur) == Rat(Abs(pos - cur) * MAX_SPEEDS(k).d, MAX_SPEEDS(k).n)

\* The greatest travel time of the request's axes from entry i on.
RECURSIVE LongestTravelTime(_, _, _)
LongestTravelTime(req, cur, i) ==
    LET t == TravelTime(req[i].k, req[i].p, cur[i])
    IN IF i = Len(req) THEN t
       ELSE LET m == LongestTravelTime(req, cur, i + 1)
            IN IF RatLess(t, m) THEN m ELSE t

\* speed_factor * time_for_axis / longest_time, with travel times: between
\* 0 and the speed factor, and the speed factor itself for the longest axis.
SyncSpeed(r, i) ==
    ScaledSpeed(r.req[i].s, TravelTime(r.req[i].k, r.req[i].p, r.cur[i]),
                LongestTravelTime(r.req, r.cur, 1))

\* C15: with sync=True, the j-th motion command of a move_absolute call is
\* the move-absolute command of the j-th axis of the mapping, with the speed
\* speed_factor * |target - current| / max_speed[axis] / longest_time.
C15_SyncSpeedFromTravelTime ==
    \A c \in Callers :
        (call[c].op = "move_absolute" /\ call[c].sync) =>
            LET r == call[c]
                m == MotionBy(r.no)
            IN \A j \in 1..Len(m) :
                  /\ j <= Len(r.req)
                  /\ m[j].cmd = MoveAbsoluteCmd(r.req[j].k, SyncSpeed(r, j), r.req[j].p)

\* A request of two axes with the same maximum speed and the same speed
\* factor.
IsEqualPair(req) ==
    /\ Len(req) = 2
    /\ MAX_SPEEDS(req[1].k) = MAX_SPEEDS(req[2].k)
    /\ req[1].s = req[2].s

\* C16: a move_absolute with sync=True for two axes of the same maximum
\* speed and the same speed factor s has, when it ends, read both positions
\* and raised nothing, and when both distances are the same (and not zero) it
\* has commanded each axis with the speed s.
C16_EqualAxesKeepSpeed ==
    \A c \in Callers :
        LET r == call[c]
        IN (/\ r.op = "move_absolute" /\ r.sync
            /\ IsEqualPair(r.req) /\ ~HasOutOfLimits(r.req)
            /\ r.pc = "idle")
           => /\ r.exc \in {"", "ZeroDivisionError"}
              /\ Len(r.cur) = 2
              /\ (r.req[1].p - r.cur[1] = r.req[2].p - r.cur[2] /\ r.exc = "")
                    => MotionBy(r.no) =
                          <<Wrote(r, MoveAbsoluteCmd(r.req[1].k, Rat(r.req[1].s, 1), r.req[1].p)),
                            Wrote(r, MoveAbsoluteCmd(r.req[2].k, Rat(r.req[2].s, 1), r.req[2].p))>>

\* The move-absolute commands of a request, each with the speed factor and
\* the target of its axis.
RECURSIVE PlainMoves(_, _)
PlainMoves(r, i) ==
    IF i > Len(r.req) THEN << >>
    ELSE <<Wrote(r, MoveAbsoluteCmd(r.req[i].k, Rat(r.req[i].s, 1), r.req[i].p))>>
         \o PlainMoves(r, i + 1)

\* C17: a move_absolute with sync=False and every target within limits has,
\* when it ends, written one move-absolute command per axis of the mapping,
\* each with the speed factor and the target of its axis, and no other
\* motion command.
C17_UnsyncedMovesAsRequested ==
    \A c \in Callers :
        LET r == call[c]
        IN (/\ r.op = "move_absolute" /\ ~r.sync
            /\ ~HasOutOfLimits(r.req)
            /\ r.pc = "idle")
           => MotionBy(r.no) = PlainMoves(r, 1)

\* The line that arrived with number id, once the dispatch loop handled it.
LineOf(id) == (CHOOSE e \in {handled[i] : i \in 1..Len(handled)} : e.id = id).line

\* The line starts with <letter>:<id>,<angle> for axis k.
IsRotaryReply(k, s) ==
    LET f == Fields(s)
    IN /\ Len(f) >= 2
       /\ Len(f[1]) > Len(k) + 1
       /\ Sub(f[1], 1, Len(k) + 1) = k
       /\ f[1][Len(k) + 1] = ":"
       /\ AllIn(Sub(f[1], Len(k) + 2, Len(f[1]) + 1), WordCh)
       /\ FloatOk(f[2])

\* The least and the greatest of a non-empty set of numbers.
Least(S) == CHOOSE x \in S : \A y \in S : x <= y
Greatest(S) == CHOOSE x \in S : \A y \in S : y <= x

\* A Rotary status() call that has ended.
StatusEnded(r) == r.op = "status" /\ r.axis \in Rotary /\ r.no > 0 /\ r.pc = "idle"

\* C19, as stated: a Rotary status() that has ended consumed exactly one
\* line, the first to enter the queue after the clear, and its outcome is
\* the angle of that line, or a parse error when that line is no reply of
\* its axis.
C19_FirstLineIsTheReply ==
    \A c \in SerialCallers :
        LET r == call[c]
        IN StatusEnded(r) =>
             /\ Cardinality(r.popped) = 1
             /\ r.from = Least(r.popped)
             /\ r.hasret => (/\ IsRotaryReply(r.axis, LineOf(r.from))
                             /\ r.ret = FloatVal(Fields(LineOf(r.from))[2]))
             /\ ~IsRotaryReply(r.axis, LineOf(r.from)) => r.exc = "ValueError"

\* C19, amended: a Rotary status() that has ended consumed exactly two
\* lines, both queued after the clear; the first (the echo of the query) is
\* dropped unread, and the outcome is the angle of the second, or a
\* ValueError when the second is no reply of its axis.
C19_SecondLineIsTheReply ==
    \A c \in SerialCallers :
        LET r == call[c]
        IN StatusEnded(r) =>
             /\ Cardinality(r.popped) = 2
             /\ r.popped \cap r.stale = {}
             /\ r.from = Greatest(r.popped)
             /\ r.hasret => (/\ IsRotaryReply(r.axis, LineOf(r.from))
                             /\ r.ret = FloatVal(Fields(LineOf(r.from))[2]))
             /\ ~IsRotaryReply(r.axis, LineOf(r.from)) => r.exc = "ValueError"
             /\ r.hasret \/ r.exc = "ValueError"

\* C19 witness: status() of A popped the echo and then the reply
\* A:I1,12.500, and returned 12.5.
C19_Witness ==
    /\ StatusEnded(call[1])
    /\ call[1].hasret
    /\ call[1].ret = 12500
    /\ Cardinality(call[1].popped) = 2
    /\ LineOf(Least(call[1].popped)) = LEchoA
    /\ LineOf(call[1].from) = LReplyA

\* A status() of A that ended on the reply of B, which is no reply of its axis.
C19_WitnessRaised ==
    /\ StatusEnded(call[1])
    /\ call[1].exc = "ValueError"
    /\ LineOf(call[1].from) = LReplyB

\* int(tok) for a tok that IntOk accepts.
IntVal(tok) ==
    IF tok[1] = "-" THEN 0 - DigitsVal(Tail(tok)) ELSE DigitsVal(tok)

\* The digits after the point of a decimal token.
Decimals(tok) == Sub(tok, Find(tok, 1, ".") + 1, Len(tok) + 1)

\* $C3,37,45.125
LMoveC ==
    <<"$", "C", "3", ",", "3", "7", ",", "4", "5", ".", "1", "2", "5">>

\* C21: a facade move_absolute(speed, target) on axis L that has ended wrote
\* one command: `$L3`, the speed as an integer token and the target as a
\* token with exactly three decimals, each reading back as the value passed;
\* for axis C, speed 37 and target 45.125 the command is `$C3,37,45.125`.
C21_MoveAbsoluteFormat ==
    \A c \in Callers :
        LET r == call[c]
        IN (r.op = "actuator.move_absolute" /\ r.pc = "idle") =>
             /\ Len(WrittenBy(r.no)) = 1
             /\ LET f == Fields(WrittenBy(r.no)[1].cmd)
                IN /\ Len(f) = 3
                   /\ f[1] = <<"$">> \o r.axis \o <<"3">>
                   /\ IntOk(f[2]) /\ IntVal(f[2]) = r.args[1]
                   /\ FloatOk(f[3]) /\ FloatVal(f[3]) = r.args[2]
                   /\ Len(Decimals(f[3])) = 3
             /\ (r.axis = <<"C">> /\ r.args = <<37, 45125>>)
                   => WrittenBy(r.no)[1].cmd = LMoveC

\* C21 witness: C.move_absolute(37, 45.125) has written `$C3,37,45.125`.
C21_Witness ==
    /\ call[1].op = "actuator.move_absolute"
    /\ call[1].axis = <<"C">>
    /\ call[1].args = <<37, 45125>>
    /\ call[1].pc = "idle"
    /\ written = <<[cmd |-> LMoveC, no |-> 1]>>

\* C22: once the dispatch loop has dealt with a status line whose letter is
\* no actuator, the line is on the queue, the Position cache holds no entry
\* for that letter and the loop is still running.
C22_UnknownAxisIsUnclassified ==
    (/\ handled # << >>
     /\ handled[Len(handled)] = data
     /\ IsStatusLine(data.line)
     /\ StatusAxis(data.line) \notin ACTUATORS)
    => /\ tpc \in {"check", "read"}
       /\ data.id \in Ids(messages_queue)
       /\ StatusAxis(data.line) \notin DOMAIN positions

\* C23: with two callers running Rotary status() on different axes, a line
\* one caller popped is gone for the other: no line is popped by both and a
\* popped line is never back on the queue.  (That a caller does pop the
\* other's reply is the witness.)
C23_ConsumedReplyIsLost ==
    /\ call[1].popped \cap call[2].popped = {}
    /\ \A c \in Callers : call[c].popped \cap Ids(messages_queue) = {}

\* C23 witness: the caller of A.status() popped the reply of B as its data
\* and raised, while the caller of B.status() has written its query and waits
\* on a queue that nothing will fill.
C23_Witness ==
    /\ call[1].op = "status" /\ call[1].axis = <<"A">>
    /\ call[1].pc = "idle" /\ call[1].exc = "ValueError"
    /\ LineOf(call[1].from) = LReplyB
    /\ call[2].op = "status" /\ call[2].axis = <<"B">>
    /\ call[2].pc \in {"st_resp", "st_data"}
    /\ \E i \in 1..Len(written) :
          written[i] = Wrote(call[2], StatusQuery(<<"B">>))
    /\ messages_queue = << >> /\ wire = << >> /\ nsent = MaxPairLines

\* The clear of one caller discarded the reply of the other: the caller of
\* B.status() had written its query, the reply of B was on the queue, and the
\* caller of A.status() is about to clear it.
C23_WitnessClear ==
    /\ call[1].pc = "st_clear"
    /\ call[2].pc = "st_data"
    /\ \E i \in 1..Len(messages_queue) : messages_queue[i].line = LReplyB

\* C24: from the moment the flag is set, the dispatch loop takes at most one
\* more line off the transport and deals with at most one more line.
C24_AtMostOneLineAfterFlag ==
    stop => /\ (nsent - Len(wire)) - flagged.taken <= 1
            /\ Len(handled) - flagged.handled <= 1

\* C24 witness: the flag was set while a read was pending; that read
\* returned a line, the line was dispatched, and the loop stopped.
C24_Witness ==
    /\ stop
    /\ tpc = "stopped"
    /\ (nsent - Len(wire)) - flagged.taken = 1
    /\ Len(handled) - flagged.handled = 1
    /\ wire # << >>

\* The entries of the Update Signal Table that are set.
SetEntries(u) ==
    {e \in {"positions", "speeds"} \X ACTUATORS : u[e[1]][e[2]]}

\* One step under C25: a step that changes the table is a routing step of
\* the dispatch loop, not a step of a foreground call; the line it routes is
\* a status line or a speed line, and the one entry it sets is that of the
\* line's axis and category.
C25_UpdateStep ==
    updates' # updates =>
        /\ tpc = "route"
        /\ call' = call /\ written' = written
        /\ LET l == data.line
           IN \/ /\ IsStatusLine(l)
                 /\ SetEntries(updates') =
                       SetEntries(updates) \cup {<<"positions", StatusAxis(l)>>}
              \/ /\ IsSpeedLine(l)
                 /\ SetEntries(updates') =
                       SetEntries(updates) \cup {<<"speeds", SpeedAxis(l)>>}

\* C25: every step that sets an entry of the Update Signal Table is as
\* C25_UpdateStep says: taken by the dispatch loop, for the axis and the
\* category of the line it classified, and for no other entry.
C25_OnlyDispatchSetsOneEntry == [][C25_UpdateStep]_vars

\* C25 witness: a foreground status() call has run to its end and a status
\* line for X was dispatched; the entry (X, positions) is the only one set.
C25_Witness ==
    /\ SetEntries(updates) = {<<"positions", <<"X">>>>}
    /\ call[1].op = "status" /\ call[1].hasret
    /\ tpc = "check"

\* One step under C26: a read of the dispatch loop that ends with no line
\* taken and no failure leaves the caches, the Update Signal Table, the
\* queue and the flag as they were, and the loop goes back to the top of its
\* iteration.
C26_TimeoutStep ==
    (tpc = "read" /\ tpc' \notin {"read", "parse", "failed"}) =>
        /\ tpc' = "check"
        /\ positions' = positions /\ speeds' = speeds
        /\ updates' = updates
        /\ messages_queue' = messages_queue
        /\ data' = data /\ handled' = handled /\ wire' = wire

\* C26: every read timeout of the dispatch loop is as C26_TimeoutStep says.
C26_TimeoutIsNoOp == [][C26_TimeoutStep]_vars

\* C26 witness: the last read timed out after lines were dispatched; the
\* cache and the queue still hold them and the loop is at the top of its
\* next iteration.
C26_Witness ==
    /\ timedout
    /\ tpc = "check"
    /\ ~stop
    /\ positions # << >>
    /\ messages_queue # << >>

\* A request whose speed factors are all within 1..100.
SpeedFactorsInRange(req) == \A i \in 1..Len(req) : req[i].s \in 1..100

\* C27: for speed factors within 1..100 and targets within limits, every
\* move-absolute command a move_absolute call wrote carries an integer speed
\* token within 1..100.
C27_SpeedTokenInRange ==
    \A c \in Callers :
        LET r == call[c]
        IN (/\ r.op = "move_absolute"
            /\ SpeedFactorsInRange(r.req)
            /\ ~HasOutOfLimits(r.req))
           => \A i \in 1..Len(written) :
                 (written[i].no = r.no /\ IsMoveAbsolute(written[i])) =>
                    LET f == Fields(written[i].cmd)
                    IN /\ IntOk(f[2])
                       /\ IntVal(f[2]) \in 1..100

\* Every axis of the request is at its target.
AllAtTarget(r) ==
    /\ Len(r.cur) = Len(r.req)
    /\ \A i \in 1..Len(r.req) : r.cur[i] = r.req[i].p

\* C28: a move_absolute with sync=True that found every axis at its target
\* does not end in a division by zero.
C28_NoDivisionByZero ==
    \A c \in Callers :
        LET r == call[c]
        IN (r.op = "move_absolute" /\ r.sync /\ AllAtTarget(r))
           => r.exc # "ZeroDivisionError"

\* The line begins with `L:` for axis L = k.
AddressedTo(k, s) ==
    Len(s) > Len(k) /\ Sub(s, 1, Len(k) + 1) = k /\ s[Len(k) + 1] = ":"

\* C29: a Rotary status() on axis L that has ended on a line returned an
\* angle only if that line begins with `L:`, and raised a parse error, with
\* nothing returned, if the line begins otherwise; this with two callers
\* interleaved in every way and lines arriving at any time.
C29_AngleOnlyFromOwnAxis ==
    \A c \in Callers :
        LET r == call[c]
        IN (r.op = "status" /\ r.axis \in Rotary /\ r.pc = "idle" /\ r.from # 0) =>
             /\ r.hasret => AddressedTo(r.axis, LineOf(r.from))
             /\ ~AddressedTo(r.axis, LineOf(r.from)) =>
                   (r.exc = "ValueError" /\ ~r.hasret)

\* C29 witness: with both callers at work and the reply of B already
\* consumed, A.status() returned 12.5 from the line A:I1,12.500.
C29_Witness ==
    /\ call[1].op = "status" /\ call[1].axis = <<"A">>
    /\ call[1].hasret /\ call[1].ret = 12500
    /\ LineOf(call[1].from) = LReplyA
    /\ call[2].popped # {}
    /\ LineOf(Least(call[2].popped)) = LReplyB

\* C30: stop_thread has returned, and the adapter is closed, only with the
\* dispatch loop ended: the loop is never alive past the join, so never able
\* to start a read on a closed adapter.
C30_CloseAfterLoopEnded ==
    /\ dpc \in {"closing", "closed"} => ~ThreadAlive
    /\ closed => ~ThreadAlive

\* C30 witness: teardown found the loop alive, set the flag, waited for the
\* loop to stop and then closed the adapter, with a line still unread.
C30_Witness ==
    /\ closed
    /\ stop
    /\ tpc = "stopped"
    /\ dpc = "closed"
    /\ wire # << >>
    /\ handled # << >>

====
